---- MODULE Spec2Model ----
(***************************************************************************)
(* A model of the memory scan / filter engine of backend/src/api.rs:       *)
(* the Target Context (pid_state), the Result Store (GLOBAL_POSITIONS),    *)
(* the scan handler with its per-range chunk tasks, the filter handler,    *)
(* the batch-read codec and the plain read / write / region handlers.      *)
(*                                                                         *)
(* Strings (patterns, stored hex values) are sequences of one-character    *)
(* strings; byte buffers are sequences of numbers 0..255.                  *)
(***************************************************************************)
EXTENDS Integers, Sequences, FiniteSets, TLC

\* ------------------------------------------------------------------ bounds

\* Size of the target's address space: addresses 0 .. MemSize-1.
MemSize == 6

\* chunk_size of memory_scan_handler (1024 * 1024 * 512 in the source), scaled.
ChunkSize == 4

\* MAX_RESULTS (100_000 in the source), scaled so that one chunk can exceed it.
MAX_RESULTS == 1

\* How many requests a behaviour issues after its seed scans.
MaxRequests == 1

\* How many seed scans a behaviour runs.
MaxSeeds == 1

\* How many times a behaviour repeats the filter it issued last.
MaxRepeats == 1

\* How many times the target process changes its own memory or mappings.
MaxTargetSteps == 1

\* How many threads run handlers at the same time.
NumThreads == 2

\* How many requests the threads take up in a behaviour of SpecLocks.
MaxLockRequests == 3

\* How many chunks of one scan spill into the store.
MaxSpills == 1

\* usize::MAX (2^64 - 1 in the source), scaled; addresses and sizes are usize.
UsizeMax == 15

Addr == 0 .. (MemSize - 1)

\* The byte values the target's memory holds.
ByteVals == {0, 255}

ScanIds == {"s1", "s2"}

\* ------------------------------------------------------------------ helpers

Min(a, b) == IF a < b THEN a ELSE b

RECURSIVE Flatten(_)
Flatten(ss) == IF ss = <<>> THEN <<>> ELSE Head(ss) \o Flatten(Tail(ss))

\* s[from .. to-1] with 0-based from (a Rust slice &s[from..to]).
Slice(s, from, to) == SubSeq(s, from + 1, to)

Ok(v) == [ok |-> TRUE, val |-> v]
Err == [ok |-> FALSE, val |-> <<>>]

\* ------------------------------------------------------------------ hex crate

LowerHex == <<"0","1","2","3","4","5","6","7","8","9","a","b","c","d","e","f">>
UpperHex == <<"0","1","2","3","4","5","6","7","8","9","A","B","C","D","E","F">>

IsHexChar(c) == \E i \in 1..16 : LowerHex[i] = c \/ UpperHex[i] = c

HexVal(c) == (CHOOSE i \in 1..16 : LowerHex[i] = c \/ UpperHex[i] = c) - 1

\* A decoder that reads a character that is no hex digit as 0 and drops an odd
\* last character, where hex::decode reports an error.
HexDecodeLenient(s) ==
    Ok([i \in 1..(Len(s) \div 2) |->
          16 * (IF IsHexChar(s[2*i - 1]) THEN HexVal(s[2*i - 1]) ELSE 0)
             + (IF IsHexChar(s[2*i]) THEN HexVal(s[2*i]) ELSE 0)])

\* hex::decode: an odd length or a character that is no hex digit is an error.
HexDecode(s) ==
    IF Len(s) % 2 = 1 \/ \E i \in 1..Len(s) : ~IsHexChar(s[i])
    THEN Err
    ELSE Ok([i \in 1..(Len(s) \div 2) |-> 16 * HexVal(s[2*i - 1]) + HexVal(s[2*i])])

\* hex::encode: two lower-case digits per byte.
HexEncode(bytes) ==
    [i \in 1..(2 * Len(bytes)) |->
        IF i % 2 = 1 THEN LowerHex[(bytes[(i + 1) \div 2] \div 16) + 1]
                     ELSE LowerHex[(bytes[i \div 2] % 16) + 1]]

\* ------------------------------------------------------------------ memchr::memmem

OccursAt(hay, needle, pos) ==
    /\ pos + Len(needle) <= Len(hay)
    /\ \A k \in 1..Len(needle) : hay[pos + k] = needle[k]

\* memmem::find_iter: the 0-based start of every occurrence found from the left,
\* the search resuming needle.len().max(1) past the start of the previous one.
RECURSIVE FindIterFrom(_, _, _)
FindIterFrom(hay, needle, from) ==
    IF from > Len(hay) THEN <<>>
    ELSE LET hits == {p \in from..Len(hay) : OccursAt(hay, needle, p)}
         IN  IF hits = {} THEN <<>>
             ELSE LET p == CHOOSE q \in hits : \A h \in hits : q <= h
                      step == IF Len(needle) = 0 THEN 1 ELSE Len(needle)
                  IN  <<p>> \o FindIterFrom(hay, needle, p + step)

FindIter(hay, needle) == FindIterFrom(hay, needle, 0)

\* ------------------------------------------------------------------ regex crate

\* The pattern syntax the model's regular expressions use: "." and literal
\* letters and digits. A pattern holding any other character (an unclosed "(")
\* does not compile.
RegexAtomOk(c) == c = "." \/ IsHexChar(c)

\* Regex::new
RegexNew(p) == IF \A i \in 1..Len(p) : RegexAtomOk(p[i]) THEN Ok(p) ELSE Err

AsciiCode(c) ==
    LET i == CHOOSE j \in 1..16 : LowerHex[j] = c \/ UpperHex[j] = c
    IN  IF i <= 10 THEN 47 + i
        ELSE IF LowerHex[i] = c THEN 86 + i ELSE 54 + i

\* "." matches one scalar value other than a line feed: over memory holding only
\* ByteVals that is a single byte below 128.
AtomMatches(c, b) == IF c = "." THEN b < 128 /\ b # 10 ELSE b = AsciiCode(c)

ReMatchAt(re, hay, pos) ==
    /\ pos + Len(re) <= Len(hay)
    /\ \A k \in 1..Len(re) : AtomMatches(re[k], hay[pos + k])

\* Regex::captures_iter: the leftmost matches, none overlapping the one before.
RECURSIVE CapturesFrom(_, _, _)
CapturesFrom(re, hay, from) ==
    IF from > Len(hay) THEN <<>>
    ELSE LET hits == {p \in from..Len(hay) : ReMatchAt(re, hay, p)}
         IN  IF hits = {} THEN <<>>
             ELSE LET p == CHOOSE q \in hits : \A h \in hits : q <= h
                      step == IF Len(re) = 0 THEN 1 ELSE Len(re)
                  IN  <<[start |-> p, end |-> p + Len(re)]>>
                          \o CapturesFrom(re, hay, p + step)

CapturesIter(re, hay) == CapturesFrom(re, hay, 0)

\* Regex::is_match
IsMatch(re, hay) == \E p \in 0..Len(hay) : ReMatchAt(re, hay, p)

\* ------------------------------------------------------------------ byteorder

Zeros(n) == [i \in 1..n |-> 0]

\* LittleEndian::read_u16 / read_u32 / read_u64 followed by "as u64": the number
\* as its eight base-256 digits, least significant first.
LittleEndianRead(bytes) == bytes \o Zeros(8 - Len(bytes))

\* (num as uN).to_be_bytes(): the low `width` digits, most significant first.
ToBeBytes(num, width) == [i \in 1..width |-> num[width + 1 - i]]

\* (num as uN).to_le_bytes(): the low `width` digits.
ToLeBytes(num, width) == SubSeq(num, 1, width)

\* ------------------------------------------------------------------ state

VARIABLES
    pid_state,          \* Option<i32> behind the mutex: {} is None, {p} is Some(p)
    poisoned,           \* the locks a panicking handler left poisoned
    crashed,            \* the server process is gone
    overflow_checks,    \* the build panics on integer overflow (a debug build)
    memory,             \* the target's memory: address -> byte
    unreadable,         \* the addresses whose read or write the gateway refuses
    GLOBAL_POSITIONS,   \* scan id -> sequence of [address, value]
    scan,               \* the scan in progress: its request and its range tasks
    last,               \* the request handled last
    admitted,           \* it found the mutex healthy and a pid set
    frozen,             \* the target has not stepped since it arrived
    repeated,           \* it repeats the request before it, the target frozen
    pre_positions,      \* GLOBAL_POSITIONS when that request arrived
    response,           \* the reply to it
    gateway_calls,      \* the gateway calls it made
    locked_calls,       \* those it made holding the GLOBAL_POSITIONS lock
    nreq,               \* requests issued so far
    nseed,              \* seed scans issued so far
    nrepeat,            \* requests repeated so far
    nenv,               \* target steps so far
    locks               \* who holds and who waits for the two locks

vars == <<pid_state, poisoned, crashed, overflow_checks, memory, unreadable,
          GLOBAL_POSITIONS, scan, last, admitted, frozen, repeated,
          pre_positions, response, gateway_calls, locked_calls, nreq, nseed,
          nrepeat, nenv, locks>>

Pids == {1}

\* A request of any handler; a handler reads only its own fields.
NoRequest ==
    [op |-> "none", pattern |-> <<>>, address_ranges |-> <<>>, find_type |-> "",
     data_type |-> "", scan_id |-> "", align |-> 1, return_as_json |-> FALSE,
     filter_method |-> "", reads |-> <<>>, address |-> 0, size |-> 0,
     buffer |-> <<>>]

\* A reply: the status, the text of an error or plain reply, and the fields of a
\* scan / filter reply or the bytes of a read reply.
Reply(status, text) ==
    [status |-> status, text |-> text, found |-> 0, matched_addresses |-> <<>>,
     is_rounded |-> FALSE, body |-> <<>>, json |-> FALSE]

NoReply == Reply(0, "")

\* The connection drops without a reply: the handler panicked.
Aborted == Reply(500, "panic")

PidNotSet == Reply(400, "Pid not set")

NoScan == [active |-> FALSE, req |-> NoRequest, next |-> <<>>, results |-> <<>>,
           found_count |-> 0]

\* ------------------------------------------------------------------ gateway

\* A read that reports success whatever read_memory_native returned.
ReadOkUnchecked(address, size) ==
    \A a \in address .. (address + size - 1) : a \in Addr

\* read_process_memory succeeds when every byte asked for is mapped and readable.
ReadOk(address, size) ==
    \A a \in address .. (address + size - 1) : a \in Addr /\ a \notin unreadable

\* The buffer (of buflen zero bytes) after a successful read of `size` bytes into
\* it, for size <= buflen: the bytes read, then the zeros left untouched.
ReadInto(address, size, buflen) ==
    [i \in 1..buflen |-> IF i <= size THEN memory[address + i - 1] ELSE 0]

\* ------------------------------------------------------------------ scan engine

Match(address, value) == [address |-> address, value |-> value]

\* size, num_chunks and the bounds of chunk i of a range
\* in usize arithmetic, which wraps when the build has no overflow checks
Wrap(x) == x % (UsizeMax + 1)
NumChunks(range) == Wrap((range[2] - range[1]) + ChunkSize - 1) \div ChunkSize
ChunkStart(range, i) == Wrap(range[1] + i * ChunkSize)
ChunkEnd(range, i) == Min(Wrap(ChunkStart(range, i) + ChunkSize), range[2])
ChunkSizeActual(range, i) == Wrap(ChunkEnd(range, i) - ChunkStart(range, i))

\* The task of a range at its chunk i panics: with overflow checks,
\* size + chunk_size - 1 or chunk_start + chunk_size exceeds usize::MAX.
TaskPanics(range, i) ==
    /\ overflow_checks
    /\ \/ (range[2] - range[1]) + ChunkSize - 1 > UsizeMax
       \/ i < NumChunks(range) /\ ChunkStart(range, i) + ChunkSize > UsizeMax

\* The element width of an Unknown scan
ElementWidth(data_type) ==
    CASE data_type \in {"int16", "uint16"} -> 2
      [] data_type \in {"int32", "uint32", "float"} -> 4
      [] data_type \in {"int64", "uint64", "double"} -> 8
      [] OTHER -> 1

\* The regex branch of a chunk: the matches whose address is aligned.
RegexChunk(re, buffer, chunk_start, scan_align) ==
    LET caps == CapturesIter(re, buffer)
        keep == SelectSeq(caps, LAMBDA c : (chunk_start + c.start) % scan_align = 0)
    IN  [k \in 1..Len(keep) |->
            Match(chunk_start + keep[k].start,
                  HexEncode(Slice(buffer, keep[k].start, keep[k].end)))]

\* The loop of the literal branch with the alignment test left out.
RECURSIVE LiteralLoopUnaligned(_, _, _, _, _)
LiteralLoopUnaligned(poss, buffer_offset, chunk_start, scan_align, pattern) ==
    IF poss = <<>> THEN <<>>
    ELSE <<Match(chunk_start + buffer_offset + Head(poss), pattern)>>
             \o LiteralLoopUnaligned(Tail(poss), buffer_offset + Head(poss) + 1,
                                     chunk_start, scan_align, pattern)

\* The loop over memmem::find_iter of the literal branch, buffer_offset included.
RECURSIVE LiteralLoop(_, _, _, _, _)
LiteralLoop(poss, buffer_offset, chunk_start, scan_align, pattern) ==
    IF poss = <<>> THEN <<>>
    ELSE LET pos == Head(poss)
             start == chunk_start + buffer_offset + pos
         IN  (IF start % scan_align = 0 THEN <<Match(start, pattern)>> ELSE <<>>)
                 \o LiteralLoop(Tail(poss), buffer_offset + pos + 1, chunk_start,
                                scan_align, pattern)

LiteralChunk(search_bytes, buffer, chunk_start, scan_align, pattern) ==
    LiteralLoop(FindIter(buffer, search_bytes), 0, chunk_start, scan_align, pattern)

\* The Unknown branch: one element per `alignment` bytes, kept when aligned.
UnknownChunk(alignment, buffer, chunk_start, scan_align) ==
    LET offsets == {o \in 0..Len(buffer) :
                        o % alignment = 0 /\ o + alignment <= Len(buffer)}
        kept == {o \in offsets : (chunk_start + o) % scan_align = 0}
        RECURSIVE Walk(_)
        Walk(o) ==
            IF o \notin offsets THEN <<>>
            ELSE (IF o \in kept
                  THEN <<Match(chunk_start + o,
                               HexEncode(ToLeBytes(
                                   LittleEndianRead(Slice(buffer, o, o + alignment)),
                                   alignment)))>>
                  ELSE <<>>) \o Walk(o + alignment)
    IN  Walk(0)

\* What one chunk task does once its read succeeded: "panic" (the handler
\* unwinds), or the local matches it found.
ChunkMatches(req, buffer, chunk_start) ==
    IF req.find_type = "exact"
    THEN IF req.data_type = "regex"
         THEN LET re == RegexNew(req.pattern)
              IN  IF ~re.ok THEN [panic |-> FALSE, local |-> <<>>]
                  ELSE [panic |-> FALSE,
                        local |-> RegexChunk(re.val, buffer, chunk_start, req.align)]
         ELSE LET search_bytes == HexDecode(req.pattern)
              IN  IF ~search_bytes.ok THEN [panic |-> FALSE, local |-> <<>>]
                  ELSE [panic |-> FALSE,
                        local |-> LiteralChunk(search_bytes.val, buffer, chunk_start,
                                               req.align, req.pattern)]
    ELSE IF req.find_type = "unknown"
    THEN LET alignment == ElementWidth(req.data_type)
         IN  IF Len(buffer) < alignment
             THEN \* buffer.len() - alignment wraps or, with overflow checks, panics
                  [panic |-> overflow_checks, local |-> <<>>]
             ELSE [panic |-> FALSE,
                   local |-> UnknownChunk(alignment, buffer, chunk_start, req.align)]
    ELSE [panic |-> FALSE, local |-> <<>>]

\* ------------------------------------------------------------------ filter engine

Reverse(s) == [i \in 1..Len(s) |-> s[Len(s) + 1 - i]]

\* a < b for two digit sequences of one length, most significant digit first
RECURSIVE SeqLess(_, _)
SeqLess(a, b) ==
    IF a = <<>> \/ b = <<>> THEN FALSE
    ELSE IF Head(a) # Head(b) THEN Head(a) < Head(b)
    ELSE SeqLess(Tail(a), Tail(b))

\* iN::from_le_bytes / uN::from_le_bytes: the number as digits that compare in
\* the order of the numbers (a signed number has its sign bit flipped).
FromLeBytes(bytes, signed) ==
    LET be == Reverse(bytes)
    IN  IF signed /\ be # <<>>
        THEN <<(Head(be) + 128) % 256>> \o Tail(be)
        ELSE be

\* LittleEndian::read_f32 (width 4) / read_f64 (width 8) of the first `width`
\* bytes: sign, magnitude digits, and whether the number is a NaN.
ReadFloat(bytes, width) ==
    LET be == Reverse(SubSeq(bytes, 1, width))
        mag == <<Head(be) % 128>> \o Tail(be)
        inf == <<127, IF width = 4 THEN 128 ELSE 240>> \o Zeros(width - 2)
    IN  [neg |-> Head(be) >= 128, mag |-> mag, nan |-> SeqLess(inf, mag),
         zero |-> (mag = Zeros(width))]

FloatEq(x, y) ==
    /\ ~x.nan /\ ~y.nan
    /\ \/ x.zero /\ y.zero
       \/ x.neg = y.neg /\ x.mag = y.mag

FloatLess(x, y) ==
    /\ ~x.nan /\ ~y.nan
    /\ ~(x.zero /\ y.zero)
    /\ \/ x.neg /\ ~y.neg
       \/ ~x.neg /\ ~y.neg /\ SeqLess(x.mag, y.mag)
       \/ x.neg /\ y.neg /\ SeqLess(y.mag, x.mag)

\* compare_values! with the arms of "changed" and "unchanged" exchanged.
compare_values_swapped(val, old_val, filter_method) ==
    CASE filter_method = "changed" -> val = old_val
      [] filter_method = "unchanged" -> val # old_val
      [] filter_method = "increased" -> SeqLess(old_val, val)
      [] filter_method = "decreased" -> SeqLess(val, old_val)
      [] OTHER -> FALSE

\* compare_values! on integers
compare_values(val, old_val, filter_method) ==
    CASE filter_method = "changed" -> val # old_val
      [] filter_method = "unchanged" -> val = old_val
      [] filter_method = "increased" -> SeqLess(old_val, val)
      [] filter_method = "decreased" -> SeqLess(val, old_val)
      [] OTHER -> FALSE

\* compare_values! on floats
compare_floats(val, old_val, filter_method) ==
    CASE filter_method = "changed" -> ~FloatEq(val, old_val)
      [] filter_method = "unchanged" -> FloatEq(val, old_val)
      [] filter_method = "increased" -> FloatLess(old_val, val)
      [] filter_method = "decreased" -> FloatLess(val, old_val)
      [] OTHER -> FALSE

\* str::from_utf8 succeeds
RECURSIVE Utf8Valid(_)
Utf8Valid(b) ==
    LET Cont(i, lo, hi) == Len(b) >= i /\ b[i] >= lo /\ b[i] <= hi
        Rest(n) == Utf8Valid(SubSeq(b, n + 1, Len(b)))
    IN  IF b = <<>> THEN TRUE
        ELSE CASE b[1] < 128 -> Rest(1)
               [] b[1] >= 194 /\ b[1] <= 223 -> Cont(2, 128, 191) /\ Rest(2)
               [] b[1] = 224 -> Cont(2, 160, 191) /\ Cont(3, 128, 191) /\ Rest(3)
               [] b[1] = 237 -> Cont(2, 128, 159) /\ Cont(3, 128, 191) /\ Rest(3)
               [] b[1] >= 225 /\ b[1] <= 239 /\ b[1] # 237 ->
                      Cont(2, 128, 191) /\ Cont(3, 128, 191) /\ Rest(3)
               [] b[1] = 240 -> Cont(2, 144, 191) /\ Cont(3, 128, 191)
                                    /\ Cont(4, 128, 191) /\ Rest(4)
               [] b[1] >= 241 /\ b[1] <= 243 ->
                      Cont(2, 128, 191) /\ Cont(3, 128, 191)
                          /\ Cont(4, 128, 191) /\ Rest(4)
               [] b[1] = 244 -> Cont(2, 128, 143) /\ Cont(3, 128, 191)
                                    /\ Cont(4, 128, 191) /\ Rest(4)
               [] OTHER -> FALSE

\* str::from_utf8(..).unwrap_or("")
FromUtf8OrEmpty(b) == IF Utf8Valid(b) THEN b ELSE <<>>

\* chunks_exact(2).map(u16::from_ne_bytes): the pairs, a trailing odd byte dropped
ChunksExact2(b) == [i \in 1..(Len(b) \div 2) |-> <<b[2*i - 1], b[2*i]>>]

IntWidth(data_type) ==
    CASE data_type \in {"int8", "uint8"} -> 1
      [] data_type \in {"int16", "uint16"} -> 2
      [] data_type \in {"int32", "uint32"} -> 4
      [] OTHER -> 8

IntTypes == {"int8", "uint8", "int16", "uint16", "int32", "uint32", "int64",
             "uint64"}
SignedTypes == {"int8", "int16", "int32", "int64"}

\* A relational branch that compares every type as raw bytes and takes
\* Increased and Decreased for Changed.
PassFilterAsBytes(data_type, filter_method, bytes, buffer) ==
    [panic |-> FALSE,
     pass |-> IF filter_method = "unchanged" THEN buffer = bytes ELSE buffer # bytes]

\* The relational branch on one candidate: "panic", or whether it passes.
\* bytes is the decoded stored value, buffer the bytes just read.
PassFilter(data_type, filter_method, bytes, buffer) ==
    IF data_type \in IntTypes
    THEN IF Len(bytes) # IntWidth(data_type) \/ Len(buffer) # IntWidth(data_type)
         THEN [panic |-> TRUE, pass |-> FALSE]     \* try_into().unwrap()
         ELSE [panic |-> FALSE,
               pass |-> compare_values(
                            FromLeBytes(buffer, data_type \in SignedTypes),
                            FromLeBytes(bytes, data_type \in SignedTypes),
                            filter_method)]
    ELSE IF data_type \in {"float", "double"}
    THEN LET width == IF data_type = "float" THEN 4 ELSE 8
         IN  IF Len(bytes) < width \/ Len(buffer) < width
             THEN [panic |-> TRUE, pass |-> FALSE]  \* the slice is too short
             ELSE [panic |-> FALSE,
                   pass |-> compare_floats(ReadFloat(buffer, width),
                                           ReadFloat(bytes, width),
                                           filter_method)]
    ELSE IF data_type = "utf-8"
    THEN [panic |-> FALSE,
          pass |-> CASE filter_method = "changed" ->
                            FromUtf8OrEmpty(buffer) # FromUtf8OrEmpty(bytes)
                     [] filter_method = "unchanged" ->
                            FromUtf8OrEmpty(buffer) = FromUtf8OrEmpty(bytes)
                     [] OTHER -> FALSE]
    ELSE IF data_type = "utf-16"
    THEN [panic |-> FALSE,
          pass |-> CASE filter_method = "changed" ->
                            ChunksExact2(buffer) # ChunksExact2(bytes)
                     [] filter_method = "unchanged" ->
                            ChunksExact2(buffer) = ChunksExact2(bytes)
                     [] OTHER -> FALSE]
    ELSE IF data_type = "aob"
    THEN [panic |-> FALSE,
          pass |-> CASE filter_method = "changed" -> buffer # bytes
                     [] filter_method = "unchanged" -> buffer = bytes
                     [] OTHER -> FALSE]
    ELSE [panic |-> FALSE, pass |-> FALSE]

\* The number of bytes the filter asks the gateway for at one candidate.
FilterReadSize(req, value) == Len(req.pattern)

\* A failed re-read that fails the request.
OnReadFailureErr(address) ==
    [kind |-> "err", overrun |-> FALSE, match |-> Match(address, <<>>)]

\* if _nread == -1 { return Ok(None) }
OnReadFailure(address) ==
    [kind |-> "none", overrun |-> FALSE, match |-> Match(address, <<>>)]

\* The closure of memory_filter_handler on one stored (address, value):
\*   "none"  Ok(None)        "some"  Ok(Some((address, hex(buffer))))
\*   "err"   Err(Invalid hex pattern)          "panic"  the closure panics
\* overrun: the read wrote past the end of the buffer.
FilterOne(req, position) ==
    LET address == position.address
        value == position.value
        buflen == Len(value) \div 2
        size == FilterReadSize(req, value)
        buffer == ReadInto(address, size, buflen)
        keep == [kind |-> "some", overrun |-> size > buflen,
                 match |-> Match(address, HexEncode(buffer))]
        Out(kind) == [kind |-> kind, overrun |-> size > buflen,
                      match |-> Match(address, <<>>)]
    IN  IF ~ReadOk(address, size)
        THEN OnReadFailure(address)
        ELSE IF req.data_type = "regex"
        THEN LET re == RegexNew(req.pattern)
             IN  IF ~re.ok THEN Out("none")
                 ELSE IF IsMatch(re.val, buffer) THEN keep ELSE Out("none")
        ELSE IF req.filter_method = "exact"
        THEN LET bytes == HexDecode(req.pattern)
             IN  IF ~bytes.ok THEN Out("err")
                 ELSE IF buffer = bytes.val THEN keep ELSE Out("none")
        ELSE LET bytes == HexDecode(value)
             IN  IF ~bytes.ok THEN Out("err")
                 ELSE LET pf == PassFilter(req.data_type, req.filter_method,
                                           bytes.val, buffer)
                      IN  IF pf.panic THEN Out("panic")
                          ELSE IF pf.pass THEN keep ELSE Out("none")

\* ------------------------------------------------------------------ batch read codec

\* u32::to_le_bytes
U32LeBytes(n) == <<n % 256, (n \div 256) % 256, (n \div 65536) % 256, n \div 16777216>>

\* lz4::block::compress(buffer, None, true): the uncompressed size, then the LZ4
\* block. An input shorter than 13 bytes is stored as one run of literals: the
\* token with the run length in its high nibble, then the bytes.
Lz4Compress(buffer) ==
    U32LeBytes(Len(buffer)) \o <<16 * Len(buffer)>> \o buffer

\* A record that leaves out the flag of a failed read.
BatchRecordNoFailureFlag(request) ==
    IF ReadOk(request.address, request.size)
    THEN LET compressed_buffer ==
                 Lz4Compress(ReadInto(request.address, request.size, request.size))
         IN  U32LeBytes(1) \o U32LeBytes(Len(compressed_buffer)) \o compressed_buffer
    ELSE <<>>

\* The record of one request of a batch read.
BatchRecord(request) ==
    IF ReadOk(request.address, request.size)
    THEN LET buffer == ReadInto(request.address, request.size, request.size)
             compressed_buffer == Lz4Compress(buffer)
         IN  U32LeBytes(1) \o U32LeBytes(Len(compressed_buffer)) \o compressed_buffer
    ELSE U32LeBytes(0)

\* ------------------------------------------------------------------ requests

\* Patterns of literal scans and filters, and of regex ones: valid and invalid.
HexPatterns == {<<>>, <<"f","f">>, <<"f","f","f","f">>, <<"(">>}
RegexPatterns == {<<".">>, <<".",".">>, <<"(">>}

RangeLists == {<<>>, <<<<0, MemSize>>>>, <<<<1, MemSize>>, <<0, 1>>>>}

Aligns == {1, 2}

\* scan_id and return_as_json of a request
IdJson == {<<"s1", TRUE>>, <<"s1", FALSE>>, <<"s2", FALSE>>}

ScanRequests ==
    {[NoRequest EXCEPT !.op = "scan", !.pattern = t[1], !.find_type = t[2],
                       !.data_type = t[3], !.address_ranges = rs, !.align = al,
                       !.scan_id = ij[1], !.return_as_json = ij[2]] :
        t \in (HexPatterns \X {"exact"} \X {"aob"})
                \cup (RegexPatterns \X {"exact"} \X {"regex"})
                \cup ({<<>>} \X {"unknown"} \X {"uint8", "int16", "int32"}),
        rs \in RangeLists, al \in Aligns, ij \in IdJson}

\* The scans a behaviour may run before its other requests.
SeedRequests ==
    {[NoRequest EXCEPT !.op = "scan", !.pattern = t[1], !.find_type = t[2],
                       !.data_type = t[3],
                       !.address_ranges = <<<<0, MemSize>>>>, !.scan_id = "s1"] :
        t \in {<<<<"f","f">>, "exact", "aob">>, <<<<".">>, "exact", "regex">>,
               <<<<>>, "unknown", "uint8">>, <<<<>>, "unknown", "int16">>,
               <<<<>>, "unknown", "int32">>}}

FilterMethods == {"changed", "unchanged", "increased", "decreased"}

FilterTypes == {"int8", "uint8", "int16", "uint16", "int32", "float", "utf-8",
                "utf-16", "aob"}

FilterRequests ==
    {[NoRequest EXCEPT !.op = "filter", !.pattern = t[1], !.filter_method = t[2],
                       !.data_type = t[3], !.scan_id = ij[1],
                       !.return_as_json = ij[2]] :
        t \in (HexPatterns \X {"exact"} \X {"aob"})
                \cup (RegexPatterns \X {"exact"} \X {"regex"})
                \cup ({<<>>, <<"f","f">>} \X FilterMethods \X FilterTypes),
        ij \in IdJson}

\* The few filters of the specification of all handlers.
FewFilterRequests ==
    {req \in FilterRequests :
        /\ req.pattern = <<"f","f">>
        /\ req.data_type \in {"aob", "regex"}
        /\ req.filter_method \in {"exact", "unchanged"}}

ReadRequest(address, size) == [address |-> address, size |-> size]

BatchRequests ==
    {[NoRequest EXCEPT !.op = "read_multiple", !.reads = rs] :
        rs \in {<<>>,
                <<ReadRequest(0, 2)>>,
                <<ReadRequest(MemSize - 1, 2), ReadRequest(1, 1)>>,
                <<ReadRequest(2, 0), ReadRequest(MemSize - 2, 2), ReadRequest(0, 3)>>}}

ReadRequests ==
    {[NoRequest EXCEPT !.op = "read", !.address = a, !.size = n] :
        a \in {0, MemSize - 1}, n \in {0, 2}}

WriteRequests ==
    {[NoRequest EXCEPT !.op = "write", !.address = a, !.buffer = b] :
        a \in {0, MemSize - 1}, b \in {<<>>, <<255, 0>>}}

\* ------------------------------------------------------------------ handlers

Idle == ~scan.active /\ ~crashed

\* pid_state.lock().unwrap() on a poisoned mutex panics.
LockPanics == "pid_state" \in poisoned

\* A handler that goes on without looking for a pid.
HasPidUnchecked == TRUE

\* if let Some(pid) = *pid
HasPid == pid_state # {}

\* A lookup that gives an unknown id an empty list (entry().or_default()).
StoreGetOrDefault(positions, scan_id) ==
    IF scan_id \in DOMAIN positions THEN Ok(positions[scan_id]) ELSE Ok(<<>>)

\* global_positions.get(scan_id)
StoreGet(positions, scan_id) ==
    IF scan_id \in DOMAIN positions THEN Ok(positions[scan_id]) ELSE Err

\* What every request does on arrival.
Arrive(req) ==
    /\ Idle
    /\ \/ req \in SeedRequests /\ nseed < MaxSeeds
          /\ nseed' = nseed + 1 /\ UNCHANGED <<nreq, nrepeat>>
       \/ req \notin SeedRequests /\ nreq < MaxRequests
          /\ nreq' = nreq + 1 /\ UNCHANGED <<nseed, nrepeat>>
       \/ req = last /\ req.op = "filter" /\ nrepeat < MaxRepeats
          /\ nrepeat' = nrepeat + 1 /\ UNCHANGED <<nreq, nseed>>
    /\ last' = req
    /\ admitted' = (~LockPanics /\ HasPid)
    /\ frozen' = TRUE
    /\ repeated' = (req = last /\ frozen)
    /\ pre_positions' = GLOBAL_POSITIONS
    /\ UNCHANGED locks


\* insert(scan_id, more) whether or not the id has an entry: what was stored
\* under the id is replaced.
InsertOverwriting(positions, scan_id, more) ==
    [id \in DOMAIN positions \cup {scan_id} |->
        IF id = scan_id THEN more ELSE positions[id]]

\* positions.extend(more), or insert(scan_id, more) when the id has no entry
ExtendOrInsert(positions, scan_id, more) ==
    IF scan_id \in DOMAIN positions
    THEN [positions EXCEPT ![scan_id] = @ \o more]
    ELSE [id \in DOMAIN positions \cup {scan_id} |->
            IF id = scan_id THEN more ELSE positions[id]]

\* A scan reply whose JSON form lists every stored match.
FoundReplyUncapped(return_as_json, positions, count) ==
    IF return_as_json
    THEN [Reply(200, "") EXCEPT !.json = TRUE, !.matched_addresses = positions,
                                !.found = count, !.is_rounded = FALSE]
    ELSE [Reply(200, "") EXCEPT !.found = count]

\* The reply of a scan: the JSON form lists at most MAX_RESULTS.
FoundReply(return_as_json, positions, count) ==
    IF return_as_json
    THEN LET limited == SubSeq(positions, 1, Min(MAX_RESULTS, Len(positions)))
         IN  [Reply(200, "") EXCEPT !.json = TRUE, !.matched_addresses = limited,
                                    !.found = count,
                                    !.is_rounded = (Len(limited) # Len(positions))]
    ELSE [Reply(200, "") EXCEPT !.found = count]

open_process_handler(pid) ==
    /\ Idle
    /\ last' = [NoRequest EXCEPT !.op = "open_process"]
    /\ admitted' = ~LockPanics
    /\ frozen' = TRUE
    /\ repeated' = FALSE
    /\ pre_positions' = GLOBAL_POSITIONS
    /\ gateway_calls' = 0 /\ locked_calls' = 0
    /\ IF LockPanics
       THEN response' = Aborted /\ UNCHANGED pid_state
       ELSE response' = Reply(200, "OK") /\ pid_state' = {pid}
    /\ UNCHANGED <<poisoned, crashed, overflow_checks, memory, unreadable,
                   GLOBAL_POSITIONS, scan, nreq, nseed, nrepeat, nenv, locks>>

\* A scan that leaves the id's entry as it finds it.
ClearNothing(positions, scan_id) == positions

\* if let Some(positions) = get_mut(scan_id) { positions.clear() }
Clear(positions, scan_id) ==
    IF scan_id \in DOMAIN positions
    THEN [positions EXCEPT ![scan_id] = <<>>]
    ELSE positions

\* memory_scan_handler up to the fan-out: the pid check and the clear.
ScanBegin(req) ==
    /\ Arrive(req)
    /\ gateway_calls' = 0 /\ locked_calls' = 0
    /\ IF LockPanics
       THEN response' = Aborted /\ UNCHANGED <<GLOBAL_POSITIONS, scan>>
       ELSE IF ~HasPid
       THEN response' = PidNotSet /\ UNCHANGED <<GLOBAL_POSITIONS, scan>>
       ELSE /\ GLOBAL_POSITIONS' = Clear(GLOBAL_POSITIONS, req.scan_id)
            /\ scan' = [active |-> TRUE, req |-> req,
                        next |-> [r \in 1..Len(req.address_ranges) |-> 0],
                        results |-> [r \in 1..Len(req.address_ranges) |-> <<>>],
                        found_count |-> 0]
            /\ response' = NoReply
    /\ UNCHANGED <<pid_state, poisoned, crashed, overflow_checks, memory,
                   unreadable, nenv>>

\* One chunk of one range: ranges run in parallel, the chunks of a range in order.
ScanChunk(r) ==
    /\ scan.active
    /\ r \in 1..Len(scan.req.address_ranges)
    /\ \/ scan.next[r] < NumChunks(scan.req.address_ranges[r])
       \/ TaskPanics(scan.req.address_ranges[r], scan.next[r])
    /\ LET req == scan.req
           range == req.address_ranges[r]
           chunk_start == ChunkStart(range, scan.next[r])
           chunk_size_actual == ChunkSizeActual(range, scan.next[r])
           advanced == [scan EXCEPT !.next[r] = @ + 1]
       IN  IF TaskPanics(range, scan.next[r])
           THEN /\ poisoned' = poisoned \cup {"pid_state"}
                /\ scan' = NoScan
                /\ response' = Aborted
                /\ UNCHANGED <<GLOBAL_POSITIONS, gateway_calls, locked_calls>>
           ELSE
           /\ gateway_calls' = gateway_calls + 1
           /\ UNCHANGED locked_calls
           /\ IF ~ReadOk(chunk_start, chunk_size_actual)
              THEN /\ scan' = advanced
                   /\ UNCHANGED <<GLOBAL_POSITIONS, poisoned, response>>
              ELSE LET buffer == ReadInto(chunk_start, chunk_size_actual,
                                          chunk_size_actual)
                       found == ChunkMatches(req, buffer, chunk_start)
                   IN  IF found.panic
                       THEN /\ poisoned' = poisoned \cup {"pid_state"}
                            /\ scan' = NoScan
                            /\ response' = Aborted
                            /\ UNCHANGED GLOBAL_POSITIONS
                       ELSE IF Len(found.local) > MAX_RESULTS
                       THEN /\ GLOBAL_POSITIONS' =
                                  ExtendOrInsert(GLOBAL_POSITIONS, req.scan_id,
                                                 found.local)
                            /\ scan' = [advanced EXCEPT
                                          !.found_count = @ + Len(found.local)]
                            /\ UNCHANGED <<poisoned, response>>
                       ELSE /\ scan' = [advanced EXCEPT
                                          !.found_count = @ + Len(found.local),
                                          !.results[r] = @ \o found.local]
                            /\ UNCHANGED <<GLOBAL_POSITIONS, poisoned, response>>
    /\ UNCHANGED <<pid_state, crashed, overflow_checks, memory, unreadable, last,
                   admitted, frozen, repeated, pre_positions, nreq, nseed,
                   nrepeat, nenv, locks>>

\* memory_scan_handler after the fan-out: the final append and the reply.
ScanFinish ==
    /\ scan.active
    /\ \A r \in 1..Len(scan.req.address_ranges) :
           /\ scan.next[r] = NumChunks(scan.req.address_ranges[r])
           /\ ~TaskPanics(scan.req.address_ranges[r], scan.next[r])
    /\ LET req == scan.req
           flattened_results == Flatten(scan.results)
       IN  /\ GLOBAL_POSITIONS' =
                 ExtendOrInsert(GLOBAL_POSITIONS, req.scan_id, flattened_results)
           /\ response' = FoundReply(req.return_as_json,
                                     GLOBAL_POSITIONS'[req.scan_id],
                                     scan.found_count)
    /\ scan' = NoScan
    /\ UNCHANGED <<pid_state, poisoned, crashed, overflow_checks, memory,
                   unreadable, last, admitted, frozen, repeated, pre_positions,
                   gateway_calls, locked_calls, nreq, nseed, nrepeat, nenv,
                   locks>>

\* The JSON reply of a filter lists every kept candidate; is_rounded compares
\* against the first MAX_RESULTS of them.
FilterReply(return_as_json, new_positions) ==
    IF return_as_json
    THEN LET limited_positions ==
                 SubSeq(new_positions, 1, Min(MAX_RESULTS, Len(new_positions)))
         IN  [Reply(200, "") EXCEPT
                 !.json = TRUE, !.matched_addresses = new_positions,
                 !.found = Len(new_positions),
                 !.is_rounded = (Len(limited_positions) # Len(new_positions))]
    ELSE [Reply(200, "") EXCEPT !.found = Len(new_positions)]

\* An insert into an emptied map: every other id loses its entry.
InsertAlone(positions, scan_id, new_positions) ==
    [id \in {scan_id} |-> new_positions]

\* insert(scan_id, new_positions)
Insert(positions, scan_id, new_positions) ==
    [id \in DOMAIN positions \cup {scan_id} |->
        IF id = scan_id THEN new_positions ELSE positions[id]]

\* The kept candidates, last first.
FilterMapReversed(results) ==
    LET kept == SelectSeq(results, LAMBDA x : x.kind = "some")
    IN  [i \in 1..Len(kept) |-> kept[Len(kept) + 1 - i].match]

\* results.into_iter().filter_map(|x| x).collect(): the kept candidates in
\* the order of the stored list.
FilterMap(results) ==
    LET kept == SelectSeq(results, LAMBDA x : x.kind = "some")
    IN  [i \in 1..Len(kept) |-> kept[i].match]

\* A failed filter that stores what it kept before it replies.
InsertThenReturn(positions, scan_id, new_positions) ==
    Insert(positions, scan_id, new_positions)

\* Err(response) => return Ok(response): the insert is not reached.
ReturnBeforeInsert(positions, scan_id, new_positions) == positions

memory_filter_handler(req) ==
    /\ Arrive(req)
    /\ IF LockPanics
       THEN /\ response' = Aborted
            /\ gateway_calls' = 0 /\ locked_calls' = 0
            /\ UNCHANGED <<GLOBAL_POSITIONS, poisoned, crashed>>
       ELSE IF ~HasPid
       THEN /\ response' = PidNotSet
            /\ gateway_calls' = 0 /\ locked_calls' = 0
            /\ UNCHANGED <<GLOBAL_POSITIONS, poisoned, crashed>>
       ELSE IF ~StoreGet(GLOBAL_POSITIONS, req.scan_id).ok
       THEN /\ response' = Reply(400, "Scanid not found")
            /\ gateway_calls' = 0 /\ locked_calls' = 0
            /\ UNCHANGED <<GLOBAL_POSITIONS, poisoned, crashed>>
       ELSE LET positions == StoreGet(GLOBAL_POSITIONS, req.scan_id).val
                results == [i \in 1..Len(positions) |-> FilterOne(req, positions[i])]
                AnyKind(kind) == \E i \in 1..Len(results) : results[i].kind = kind
                overrun == \E i \in 1..Len(results) : results[i].overrun
                new_positions == FilterMap(results)
            IN  /\ gateway_calls' = Len(positions)
                /\ locked_calls' = Len(positions)
                /\ \E dies \in (IF overrun THEN BOOLEAN ELSE {FALSE}) :
                     IF dies
                     THEN \* the write past the buffer brings the server down
                          /\ crashed' = TRUE
                          /\ response' = Aborted
                          /\ UNCHANGED <<GLOBAL_POSITIONS, poisoned>>
                     ELSE IF AnyKind("panic")
                     THEN /\ poisoned' = poisoned \cup {"pid_state", "GLOBAL_POSITIONS"}
                          /\ response' = Aborted
                          /\ UNCHANGED <<GLOBAL_POSITIONS, crashed>>
                     ELSE IF AnyKind("err")
                     THEN /\ response' = Reply(400, "Invalid hex pattern")
                          /\ GLOBAL_POSITIONS' =
                                ReturnBeforeInsert(GLOBAL_POSITIONS, req.scan_id,
                                                   new_positions)
                          /\ UNCHANGED <<poisoned, crashed>>
                     ELSE /\ GLOBAL_POSITIONS' =
                                Insert(GLOBAL_POSITIONS, req.scan_id, new_positions)
                          /\ response' = FilterReply(req.return_as_json, new_positions)
                          /\ UNCHANGED <<poisoned, crashed>>
    /\ UNCHANGED <<pid_state, overflow_checks, memory, unreadable, scan, nenv>>

read_memory_multiple_handler(req) ==
    /\ Arrive(req)
    /\ IF LockPanics
       THEN response' = Aborted /\ gateway_calls' = 0 /\ locked_calls' = 0
       ELSE IF ~HasPid
       THEN response' = PidNotSet /\ gateway_calls' = 0 /\ locked_calls' = 0
       ELSE LET compressed_buffers ==
                    [i \in 1..Len(req.reads) |-> BatchRecord(req.reads[i])]
            IN  /\ response' = [Reply(200, "") EXCEPT
                                  !.body = Flatten(compressed_buffers)]
                /\ gateway_calls' = Len(req.reads) /\ locked_calls' = 0
    /\ UNCHANGED <<pid_state, poisoned, crashed, overflow_checks, memory,
                   unreadable, GLOBAL_POSITIONS, scan, nenv>>

read_memory_handler(req) ==
    /\ Arrive(req)
    /\ IF LockPanics
       THEN response' = Aborted /\ gateway_calls' = 0 /\ locked_calls' = 0
       ELSE IF ~HasPid
       THEN response' = PidNotSet /\ gateway_calls' = 0 /\ locked_calls' = 0
       ELSE /\ gateway_calls' = 1 /\ locked_calls' = 0
            /\ response' =
                 IF ReadOk(req.address, req.size)
                 THEN [Reply(200, "") EXCEPT
                          !.body = ReadInto(req.address, req.size, req.size)]
                 ELSE Reply(200, "")
    /\ UNCHANGED <<pid_state, poisoned, crashed, overflow_checks, memory,
                   unreadable, GLOBAL_POSITIONS, scan, nenv>>

write_memory_handler(req) ==
    /\ Arrive(req)
    /\ IF LockPanics
       THEN /\ response' = Aborted /\ gateway_calls' = 0 /\ locked_calls' = 0
            /\ UNCHANGED memory
       ELSE IF ~HasPid
       THEN /\ response' = PidNotSet /\ gateway_calls' = 0 /\ locked_calls' = 0
            /\ UNCHANGED memory
       ELSE /\ gateway_calls' = 1 /\ locked_calls' = 0
            /\ IF ReadOk(req.address, Len(req.buffer))
               THEN /\ memory' = [a \in Addr |->
                                    IF a >= req.address
                                       /\ a < req.address + Len(req.buffer)
                                    THEN req.buffer[a - req.address + 1]
                                    ELSE memory[a]]
                    /\ response' = Reply(200, "Memory successfully written")
               ELSE /\ response' = Reply(400, "WriteProcessMemory error")
                    /\ UNCHANGED memory
    /\ UNCHANGED <<pid_state, poisoned, crashed, overflow_checks, unreadable,
                   GLOBAL_POSITIONS, scan, nenv>>

enumerate_regions_handler ==
    LET req == [NoRequest EXCEPT !.op = "enumerate_regions"]
    IN  /\ Arrive(req)
        /\ IF LockPanics
           THEN response' = Aborted /\ gateway_calls' = 0 /\ locked_calls' = 0
           ELSE IF ~HasPid
           THEN response' = PidNotSet /\ gateway_calls' = 0 /\ locked_calls' = 0
           ELSE /\ response' = Reply(200, "regions")
                /\ gateway_calls' = 1 /\ locked_calls' = 0
        /\ UNCHANGED <<pid_state, poisoned, crashed, overflow_checks, memory,
                       unreadable, GLOBAL_POSITIONS, scan, nenv>>

\* ------------------------------------------------------------------ the target

\* The addresses the target writes, and those it unmaps or maps again.
TargetWrites == {0}
TargetUnmaps == {MemSize - 1}

\* The target process writes one byte of its memory, or one address becomes
\* unreadable or readable again.
TargetStep ==
    /\ Idle
    /\ nenv < MaxTargetSteps
    /\ nenv' = nenv + 1
    /\ frozen' = FALSE
    /\ \/ \E a \in TargetWrites, b \in ByteVals :
            /\ memory[a] # b
            /\ memory' = [memory EXCEPT ![a] = b]
            /\ UNCHANGED unreadable
       \/ \E a \in TargetUnmaps :
            /\ unreadable' = IF a \in unreadable THEN unreadable \ {a}
                             ELSE unreadable \cup {a}
            /\ UNCHANGED memory
    /\ UNCHANGED <<pid_state, poisoned, crashed, overflow_checks,
                   GLOBAL_POSITIONS, scan, last, admitted, repeated,
                   pre_positions, response, gateway_calls, locked_calls, nreq, nseed,
                   nrepeat, locks>>

\* ------------------------------------------------------------------ locks

Threads == 1..NumThreads

Ops == {"open_process", "read", "read_multiple", "write", "scan", "filter",
        "regions"}

\* The variables of the server proper.
server == <<pid_state, poisoned, crashed, overflow_checks, memory, unreadable,
            GLOBAL_POSITIONS, scan, last, admitted, frozen, repeated,
            pre_positions, response, gateway_calls, locked_calls, nreq, nseed,
            nrepeat, nenv>>

\* What a handler does with the GLOBAL_POSITIONS lock while it holds the
\* pid_state guard, in order: "w+" is write(), "r+" is read(), "-" is the end
\* of the guard's scope.

\* A scan whose clear keeps its write guard.
ScanLocksKeepingGuard(spills) ==
    <<"w+">>
    \o Flatten([i \in 1..spills |-> <<"w+", "-">>])
    \o <<"w+", "-">>
    \o <<"r+", "-">>

\* memory_scan_handler: the clear, a spill for each chunk with more than
\* MAX_RESULTS matches, the final append, the reply.
ScanLocks(spills) ==
    <<"w+", "-">>
    \o Flatten([i \in 1..spills |-> <<"w+", "-">>])
    \o <<"w+", "-">>
    \o <<"r+", "-">>

\* memory_filter_handler: the write guard lives until the handler returns.
FilterLocks == <<"w+">>

\* has_pid: the handler found a pid set; without one no handler touches the
\* store.
LockScript(op, has_pid, spills) ==
    IF ~has_pid THEN <<>>
    ELSE IF op = "scan" THEN ScanLocks(spills)
    ELSE IF op = "filter" THEN FilterLocks
    ELSE <<>>

NoLocks ==
    [pc |-> [t \in Threads |-> "idle"],
     op |-> [t \in Threads |-> "none"],
     script |-> [t \in Threads |-> <<>>],
     ip |-> [t \in Threads |-> 1],
     pid_holder |-> 0, writer |-> 0, readers |-> {},
     pid_poisoned |-> FALSE, n |-> 0]

\* The locks with everything thread t holds released.
Released(l, t) ==
    [l EXCEPT !.pid_holder = IF @ = t THEN 0 ELSE @,
              !.writer = IF @ = t THEN 0 ELSE @,
              !.readers = @ \ {t},
              !.pc[t] = "idle", !.op[t] = "none", !.script[t] = <<>>, !.ip[t] = 1]

\* A request reaches thread t, which goes on to pid_state.lock().
Receive(t, op) ==
    /\ locks.pc[t] = "idle"
    /\ locks.n < MaxLockRequests
    /\ locks' = [locks EXCEPT !.pc[t] = "lock_pid", !.op[t] = op, !.n = @ + 1]
    /\ UNCHANGED server

\* pid_state.lock().unwrap(): the thread waits while another holds the mutex;
\* on a poisoned mutex unwrap panics and the guard is dropped at once.
LockPid(t) ==
    /\ locks.pc[t] = "lock_pid"
    /\ locks.pid_holder = 0
    /\ IF locks.pid_poisoned
       THEN locks' = Released(locks, t)
       ELSE \E has_pid \in BOOLEAN, spills \in 0..MaxSpills :
               locks' = [locks EXCEPT
                            !.pid_holder = t, !.pc[t] = "run", !.ip[t] = 1,
                            !.script[t] = LockScript(locks.op[t], has_pid, spills)]
    /\ UNCHANGED server

\* The next write(), read() or end of scope of the handler on thread t. A
\* write() waits for the lock to be free of every guard, a read() for it to be
\* free of a write guard, whoever holds it.
StoreStep(t) ==
    /\ locks.pc[t] = "run"
    /\ locks.ip[t] <= Len(locks.script[t])
    /\ LET step == locks.script[t][locks.ip[t]]
           advanced == [locks EXCEPT !.ip[t] = @ + 1]
       IN  CASE step = "w+" ->
                   /\ locks.writer = 0 /\ locks.readers = {}
                   /\ locks' = [advanced EXCEPT !.writer = t]
             [] step = "r+" ->
                   /\ locks.writer = 0
                   /\ locks' = [advanced EXCEPT !.readers = @ \cup {t}]
             [] OTHER ->
                   locks' = [advanced EXCEPT
                                !.writer = IF @ = t THEN 0 ELSE @,
                                !.readers = @ \ {t}]
    /\ UNCHANGED server

\* The handler on thread t panics: a scan in its fan-out, holding the pid guard
\* only, or a filter in its comparisons, holding both guards. Unwinding drops
\* the guards and poisons the mutex.
Panic(t) ==
    /\ locks.pc[t] = "run"
    /\ \/ /\ locks.op[t] = "scan"
          /\ locks.ip[t] \in 3..(Len(locks.script[t]) - 3)
          /\ locks.writer # t
       \/ /\ locks.op[t] = "filter"
          /\ locks.writer = t
    /\ locks' = [Released(locks, t) EXCEPT !.pid_poisoned = TRUE]
    /\ UNCHANGED server

\* The handler on thread t returns: its guards are dropped.
Return(t) ==
    /\ locks.pc[t] = "run"
    /\ locks.ip[t] > Len(locks.script[t])
    /\ locks' = Released(locks, t)
    /\ UNCHANGED server

\* ------------------------------------------------------------------ specification

\* What the target's memory holds when the server starts.
InitialMemories ==
    {[a \in Addr |-> 255],
     [a \in Addr |-> 0],
     [a \in Addr |-> IF a < 2 THEN 255 ELSE 0],
     [a \in Addr |-> IF a % 2 = 1 THEN 255 ELSE 0]}

Init ==
    /\ pid_state = {}
    /\ poisoned = {}
    /\ crashed = FALSE
    /\ overflow_checks \in BOOLEAN
    /\ memory \in InitialMemories
    /\ unreadable = {}
    /\ GLOBAL_POSITIONS = [id \in {} |-> <<>>]
    /\ scan = NoScan
    /\ last = NoRequest
    /\ admitted = FALSE
    /\ frozen = TRUE
    /\ repeated = FALSE
    /\ pre_positions = GLOBAL_POSITIONS
    /\ response = NoReply
    /\ gateway_calls = 0
    /\ locked_calls = 0
    /\ nreq = 0
    /\ nseed = 0
    /\ nrepeat = 0
    /\ nenv = 0
    /\ locks = NoLocks

Attach == \E p \in Pids : open_process_handler(p)

ScanSteps ==
    \/ \E r \in 1..Len(scan.req.address_ranges) : ScanChunk(r)
    \/ ScanFinish

\* Every handler, each with a few requests.
Next ==
    \/ Attach
    \/ \E req \in SeedRequests : ScanBegin(req)
    \/ ScanSteps
    \/ \E req \in FewFilterRequests : memory_filter_handler(req)
    \/ \E req \in BatchRequests : read_memory_multiple_handler(req)
    \/ \E req \in ReadRequests : read_memory_handler(req)
    \/ \E req \in WriteRequests : write_memory_handler(req)
    \/ enumerate_regions_handler
    \/ TargetStep

Spec == Init /\ [][Next]_vars

\* The scan engine with every scan request.
NextScan ==
    \/ Attach
    \/ \E req \in ScanRequests \cup SeedRequests : ScanBegin(req)
    \/ ScanSteps
    \/ TargetStep

SpecScan == Init /\ [][NextScan]_vars

\* The filter engine with every filter request, over the result of a seed scan.
NextFilter ==
    \/ Attach
    \/ \E req \in SeedRequests : ScanBegin(req)
    \/ ScanSteps
    \/ \E req \in FilterRequests : memory_filter_handler(req)
    \/ TargetStep

SpecFilter == Init /\ [][NextFilter]_vars

\* The scan that ran before the behaviours of SpecStore begin: an Unknown
\* scan of the whole memory, one byte an element, under the id "s2".
EarlierScan ==
    [NoRequest EXCEPT !.op = "scan", !.find_type = "unknown",
                      !.data_type = "uint8", !.scan_id = "s2",
                      !.address_ranges = <<<<0, MemSize>>>>]

\* What a scan of readable memory stores: the matches of every chunk of every
\* range.
ScanOutcome(req) ==
    Flatten([r \in 1..Len(req.address_ranges) |->
        LET range == req.address_ranges[r]
        IN  Flatten([c \in 1..NumChunks(range) |->
                LET chunk_start == ChunkStart(range, c - 1)
                    size == ChunkSizeActual(range, c - 1)
                IN  ChunkMatches(req, ReadInto(chunk_start, size, size),
                                 chunk_start).local])])

\* The server after an attach and EarlierScan.
InitStore ==
    /\ pid_state \in {{p} : p \in Pids}
    /\ poisoned = {}
    /\ crashed = FALSE
    /\ overflow_checks \in BOOLEAN
    /\ memory \in InitialMemories
    /\ unreadable = {}
    /\ GLOBAL_POSITIONS = [id \in {"s2"} |-> ScanOutcome(EarlierScan)]
    /\ scan = NoScan
    /\ last = EarlierScan
    /\ admitted = TRUE
    /\ frozen = TRUE
    /\ repeated = FALSE
    /\ pre_positions = [id \in {} |-> <<>>]
    /\ response = FoundReply(FALSE, GLOBAL_POSITIONS["s2"],
                             Len(GLOBAL_POSITIONS["s2"]))
    /\ gateway_calls = NumChunks(<<0, MemSize>>)
    /\ locked_calls = 0
    /\ nreq = 0
    /\ nseed = 0
    /\ nrepeat = 0
    /\ nenv = 0
    /\ locks = NoLocks

\* The filters of SpecStore: exact ones, and relational ones of four types.
StoreFilterRequests ==
    {req \in FilterRequests :
        req.data_type \in {"aob", "regex", "uint8", "int16"}}

\* Scans and filters over a store that already holds the matches of "s2".
NextStore ==
    \/ Attach
    \/ \E req \in ScanRequests \cup SeedRequests : ScanBegin(req)
    \/ ScanSteps
    \/ \E req \in StoreFilterRequests : memory_filter_handler(req)
    \/ TargetStep

SpecStore == InitStore /\ [][NextStore]_vars

\* Every range of the address space with start <= end.
OrderedRanges ==
    {rg \in (0..UsizeMax) \X (0..UsizeMax) : rg[1] <= rg[2]}

\* Literal scans of one range each.
ChunkRequests ==
    {[NoRequest EXCEPT !.op = "scan", !.pattern = <<"f","f">>,
                       !.find_type = "exact", !.data_type = "aob",
                       !.scan_id = "s1", !.address_ranges = <<rg>>] :
        rg \in OrderedRanges}

\* The chunk walk of the scan handler over every range.
NextChunks ==
    \/ Attach
    \/ \E req \in ChunkRequests : ScanBegin(req)
    \/ ScanSteps

SpecChunks == Init /\ [][NextChunks]_vars

\* What a thread with a request does next.
Advance(t) == LockPid(t) \/ StoreStep(t) \/ Return(t)

\* The handlers of concurrent requests, at the grain of their lock operations.
NextLocks ==
    \/ \E t \in Threads, op \in Ops : Receive(t, op)
    \/ \E t \in Threads : LockPid(t)
    \/ \E t \in Threads : StoreStep(t)
    \/ \E t \in Threads : Panic(t)
    \/ \E t \in Threads : Return(t)

\* A thread that can take its next step is scheduled; every gateway call
\* returns.
SpecLocks ==
    Init /\ [][NextLocks]_vars /\ \A t \in Threads : WF_vars(Advance(t))

\* ------------------------------------------------------------------ claims: scan

\* The memory of the target as one buffer starting at address 0.
MemoryBytes == [i \in 1..MemSize |-> memory[i - 1]]

\* The last request is a scan that passed the pid check.
ScanRan == last.op = "scan" /\ admitted

\* ... and has sent its reply.
ScanDone == ScanRan /\ ~scan.active /\ response # Aborted

StoredAt(scan_id) ==
    IF scan_id \in DOMAIN GLOBAL_POSITIONS THEN GLOBAL_POSITIONS[scan_id] ELSE <<>>

Addresses(positions) == {positions[i].address : i \in 1..Len(positions)}

\* C1: during and after an Exact scan (literal or regex) with alignment A, every
\* address stored under the scan id, and every address listed in the reply, is a
\* multiple of A.
C1_ExactScanAligned ==
    (ScanRan /\ last.find_type = "exact") =>
        /\ \A a \in Addresses(StoredAt(last.scan_id)) : a % last.align = 0
        /\ \A a \in Addresses(response.matched_addresses) : a % last.align = 0

\* An Exact literal scan with alignment 2 has stored matches while the pattern
\* also occurs at an odd address.
C1_Witness ==
    /\ ScanDone /\ last.find_type = "exact" /\ last.data_type = "aob"
    /\ last.pattern = <<"f","f">> /\ last.align = 2 /\ frozen
    /\ StoredAt(last.scan_id) # <<>>
    /\ response.matched_addresses # <<>>
    /\ memory[1] = 255

\* C2: every address an Exact literal scan reports is an address at which the
\* (non-empty) pattern bytes start in the target's memory, also when a chunk
\* holds several occurrences.
C2_ReportedAddressIsOccurrence ==
    (ScanDone /\ frozen /\ last.find_type = "exact" /\ last.data_type # "regex"
        /\ HexDecode(last.pattern).ok /\ last.pattern # <<>>) =>
        \A a \in Addresses(StoredAt(last.scan_id)) :
            OccursAt(MemoryBytes, HexDecode(last.pattern).val, a)

\* C3: once a scan has replied, the number of matches stored under its id is
\* the "found" count of the reply.
C3_StoredCountIsFound ==
    ScanDone => Len(StoredAt(last.scan_id)) = response.found

\* An Unknown byte scan of the whole memory, whose first chunk alone exceeds
\* MAX_RESULTS and is spilled, over an id that held matches before.
C3_Witness ==
    /\ ScanDone /\ last.find_type = "unknown" /\ last.data_type = "uint8"
    /\ last.address_ranges = <<<<0, MemSize>>>> /\ last.align = 1
    /\ ChunkSize > MAX_RESULTS
    /\ response.found = MemSize
    /\ last.scan_id \in DOMAIN pre_positions
    /\ pre_positions[last.scan_id] # <<>>

\* The pattern of an Exact scan is no hex string (odd length, or a character that
\* is no hex digit), or a regex that opens a group it never closes.
InvalidScanPattern(req) ==
    IF req.data_type = "regex" THEN \E i \in 1..Len(req.pattern) : req.pattern[i] = "("
    ELSE \/ Len(req.pattern) % 2 = 1
         \/ \E i \in 1..Len(req.pattern) : ~IsHexChar(req.pattern[i])

\* C10: an Exact scan with an invalid pattern finds nothing in any chunk, and
\* replies success with found = 0, leaving an empty entry under its id.
C10_InvalidPatternScansEmpty ==
    (ScanRan /\ last.find_type = "exact" /\ InvalidScanPattern(last)) =>
        /\ StoredAt(last.scan_id) = <<>>
        /\ scan.active =>
              scan.found_count = 0 /\ Flatten(scan.results) = <<>>
        /\ ~scan.active =>
              /\ response.status = 200 /\ response.found = 0
              /\ response.matched_addresses = <<>>
              /\ last.scan_id \in DOMAIN GLOBAL_POSITIONS

\* An Exact literal scan with pattern "(" has replied, every chunk of the range
\* was read, and the id held matches before.
C10_Witness ==
    /\ ScanDone /\ last.find_type = "exact" /\ last.data_type = "aob"
    /\ last.pattern = <<"(">> /\ last.address_ranges = <<<<0, MemSize>>>>
    /\ unreadable = {}
    /\ last.scan_id \in DOMAIN pre_positions
    /\ pre_positions[last.scan_id] # <<>>

\* ------------------------------------------------------------------ claims: filter

\* The last request is a filter that passed the pid check.
FilterRan == last.op = "filter" /\ admitted

\* ... and replied with a result.
FilterDone == FilterRan /\ response.status = 200

\* The integer a little-endian byte string of at most four bytes denotes (an
\* unsigned one of at most two).
IntValue(bytes, signed) ==
    LET w == Len(bytes)
        top == IF signed /\ bytes[w] >= 128 THEN bytes[w] - 256 ELSE bytes[w]
        RECURSIVE Low(_)
        Low(i) == IF i >= w THEN 0 ELSE bytes[i] * (256 ^ (i - 1)) + Low(i + 1)
    IN  Low(1) + top * (256 ^ (w - 1))

C4Types == {"int8", "uint8", "int16", "uint16", "int32"}

\* C4: after an Increased (Decreased) filter on an integer type, a stored match
\* of that type's width whose re-read succeeded is in the new result set iff the
\* integer now in memory at its address is greater (smaller) than the stored one.
C4_RelationalFilterComparesMemory ==
    (FilterDone /\ frozen /\ last.data_type \in C4Types
        /\ last.filter_method \in {"increased", "decreased"}) =>
        \A i \in 1..Len(pre_positions[last.scan_id]) :
            LET p == pre_positions[last.scan_id][i]
                w == IntWidth(last.data_type)
                signed == last.data_type \in SignedTypes
                old == IntValue(HexDecode(p.value).val, signed)
                new == IntValue(Slice(MemoryBytes, p.address, p.address + w), signed)
            IN  (Len(p.value) = 2 * w /\ ReadOk(p.address, w)
                    /\ ReadOk(p.address, Len(last.pattern))) =>
                    (p.address \in Addresses(StoredAt(last.scan_id))
                        <=> IF last.filter_method = "increased" THEN new > old
                                                                ELSE new < old)

\* C5: an Unchanged filter that repeats the request before it, the target's
\* memory and mappings frozen in between, leaves the result set as the first
\* pass left it.
C5_UnchangedFilterIdempotent ==
    (FilterDone /\ repeated /\ last.filter_method = "unchanged") =>
        GLOBAL_POSITIONS = pre_positions

\* The second pass of an Unchanged int16 filter with matches left, the target
\* having changed its memory or mappings before the first pass.
C5_Witness ==
    /\ FilterDone /\ repeated /\ last.filter_method = "unchanged"
    /\ last.data_type = "int16" /\ last.pattern = <<"f","f">>
    /\ nenv > 0
    /\ StoredAt(last.scan_id) # <<>>

\* C8: a filter on a scan id that has no entry replies 400 "Scanid not found",
\* whatever its pattern, data type and relation, and leaves the store as it was.
C8_UnknownScanIdRejected ==
    (FilterRan /\ last.scan_id \notin DOMAIN pre_positions) =>
        /\ response = Reply(400, "Scanid not found")
        /\ GLOBAL_POSITIONS = pre_positions
        /\ gateway_calls = 0

\* A relational filter on the id "s2", which has no entry, while "s1" holds
\* matches.
C8_Witness ==
    /\ FilterRan /\ last.scan_id = "s2" /\ last.filter_method = "increased"
    /\ last.data_type = "int16"
    /\ "s2" \notin DOMAIN pre_positions
    /\ StoredAt("s1") # <<>>
    /\ response.status = 400

\* The pattern of a filter does not decode (relation Exact) or compile (regex).
MalformedFilterPattern(req) ==
    IF req.data_type = "regex" THEN ~RegexNew(req.pattern).ok
    ELSE req.filter_method = "exact" /\ ~HexDecode(req.pattern).ok

\* C9: a filter with a malformed pattern on an existing id is answered with a
\* client error, whatever the result set holds.
C9_MalformedFilterPatternRejected ==
    (FilterRan /\ ~crashed /\ last.scan_id \in DOMAIN pre_positions
        /\ MalformedFilterPattern(last)) =>
        response.status = 400

\* ------------------------------------------------------------------ claims: batch read

\* u32::from_le_bytes of b[from+1 .. from+4]
U32At(b, from) ==
    b[from + 1] + 256 * b[from + 2] + 65536 * b[from + 3] + 16777216 * b[from + 4]

Malformed == [ok |-> FALSE, data |-> <<-1>>]
Failure == [ok |-> FALSE, data |-> <<>>]
Success(data) == [ok |-> TRUE, data |-> data]

\* The client's lz4 decompress_size_prepended of a block holding one run of
\* literals.
Lz4Decompress(payload) ==
    IF Len(payload) < 5 THEN Malformed
    ELSE LET size == U32At(payload, 0)
             literals == payload[5] \div 16
         IN  IF literals # size \/ payload[5] % 16 # 0 \/ Len(payload) # 5 + literals
             THEN Malformed
             ELSE Success(SubSeq(payload, 6, 5 + literals))

\* The client's decoder: flag, then length and payload, by running offset.
RECURSIVE BatchDecode(_)
BatchDecode(buf) ==
    IF buf = <<>> THEN <<>>
    ELSE IF Len(buf) < 4 THEN <<Malformed>>
    ELSE LET flag == U32At(buf, 0)
         IN  IF flag = 0
             THEN <<Failure>> \o BatchDecode(SubSeq(buf, 5, Len(buf)))
             ELSE IF flag # 1 \/ Len(buf) < 8 THEN <<Malformed>>
             ELSE LET n == U32At(buf, 4)
                  IN  IF Len(buf) < 8 + n THEN <<Malformed>>
                      ELSE <<Lz4Decompress(SubSeq(buf, 9, 8 + n))>>
                               \o BatchDecode(SubSeq(buf, 9 + n, Len(buf)))

\* What request i of a batch should decode to: the bytes in memory, or a failure.
Expected(request) ==
    IF ReadOk(request.address, request.size)
    THEN Success([k \in 1..request.size |-> memory[request.address + k - 1]])
    ELSE Failure

\* C6: the reply to a batch read decodes, record by record, to the N buffers and
\* failure markers of its N requests in request order.
C6_BatchReadRoundTrip ==
    (last.op = "read_multiple" /\ admitted /\ frozen) =>
        BatchDecode(response.body) =
            [i \in 1..Len(last.reads) |-> Expected(last.reads[i])]

\* A batch of three reads of which one is empty, one fails and one succeeds.
C6_Witness ==
    /\ last.op = "read_multiple" /\ admitted /\ frozen
    /\ Len(last.reads) = 3
    /\ \E i, j \in 1..3 :
          /\ ReadOk(last.reads[i].address, last.reads[i].size)
          /\ last.reads[i].size > 0
          /\ ~ReadOk(last.reads[j].address, last.reads[j].size)

\* ------------------------------------------------------------------ claims: no pid

MemoryOps == {"read", "read_multiple", "write", "scan", "filter",
              "enumerate_regions"}

\* C7: while no pid is set, a memory operation replies 400 "Pid not set", calls
\* the gateway not once and leaves the store as it was; a scan starts no task.
C7_NoPidRejectsEverything ==
    (pid_state = {} /\ last.op \in MemoryOps) =>
        /\ response = PidNotSet
        /\ gateway_calls = 0
        /\ GLOBAL_POSITIONS = pre_positions
        /\ ~scan.active

\* A scan arrived while no pid was set.
C7_Witness ==
    /\ pid_state = {} /\ last.op = "scan" /\ last.find_type = "unknown"
    /\ response.status = 400

\* ------------------------------------------------------------------ claims: replies

\* The first n elements of a sequence, or all of it when it is shorter.
Take(seq, n) == SubSeq(seq, 1, Min(n, Len(seq)))

\* C11: the JSON reply of a scan lists the first min(MAX_RESULTS, stored) stored
\* matches, is_rounded says whether more are stored, and found is the number
\* stored; the plain reply carries the number stored and no match.
C11_ScanReplyCapped ==
    ScanDone =>
        /\ response.status = 200
        /\ response.found = Len(StoredAt(last.scan_id))
        /\ response.json = last.return_as_json
        /\ IF last.return_as_json
           THEN /\ response.matched_addresses =
                      Take(StoredAt(last.scan_id), MAX_RESULTS)
                /\ response.is_rounded = (Len(StoredAt(last.scan_id)) > MAX_RESULTS)
           ELSE response.matched_addresses = <<>> /\ ~response.is_rounded

\* A scan with JSON output storing more than MAX_RESULTS matches has replied.
C11_Witness ==
    /\ ScanDone /\ last.return_as_json
    /\ Len(StoredAt(last.scan_id)) > MAX_RESULTS
    /\ response.is_rounded
    /\ Len(response.matched_addresses) = MAX_RESULTS

\* C12: the JSON reply of a filter lists the first min(MAX_RESULTS, kept) kept
\* candidates, is_rounded says whether more were kept, and found is the number
\* kept.
C12_FilterReplyCapped ==
    (FilterDone /\ last.return_as_json) =>
        /\ response.found = Len(StoredAt(last.scan_id))
        /\ response.matched_addresses = Take(StoredAt(last.scan_id), MAX_RESULTS)
        /\ response.is_rounded = (Len(StoredAt(last.scan_id)) > MAX_RESULTS)

\* ------------------------------------------------------------------ claims: chaining

\* The gateway refuses a read of `size` bytes at `address`.
GatewayFails(address, size) ==
    \E a \in address .. (address + size - 1) : a \notin Addr \/ a \in unreadable

\* The n bytes the target holds at an address, as hex; nothing when some of them
\* are not mapped.
CurrentHex(address, n) ==
    IF \A a \in address .. (address + n - 1) : a \in Addr
    THEN HexEncode([k \in 1..n |-> memory[address + k - 1]])
    ELSE <<"?">>

\* C13: a filter pass that replies leaves under its id only candidates of the
\* set it found there, each with the bytes the target now holds at its address
\* (as many as its stored value had) as its value, and leaves other ids alone.
C13_FilterReplacesWithFreshValues ==
    (FilterDone /\ frozen /\ last.data_type # "regex") =>
        LET pre == pre_positions[last.scan_id]
            post == StoredAt(last.scan_id)
        IN  /\ \A j \in 1..Len(post) : \E i \in 1..Len(pre) :
                   /\ post[j].address = pre[i].address
                   /\ post[j].value =
                          CurrentHex(pre[i].address, Len(pre[i].value) \div 2)
            /\ \A id \in DOMAIN pre_positions \ {last.scan_id} :
                   GLOBAL_POSITIONS[id] = pre_positions[id]

\* What a scan of the target's memory as it is stores: the matches of every
\* chunk of every range whose read succeeds.
ExpectedScanMatches(req) ==
    Flatten([r \in 1..Len(req.address_ranges) |->
        LET range == req.address_ranges[r]
        IN  Flatten([c \in 1..NumChunks(range) |->
                LET chunk_start == ChunkStart(range, c - 1)
                    size == ChunkEnd(range, c - 1) - chunk_start
                IN  IF GatewayFails(chunk_start, size) THEN <<>>
                    ELSE ChunkMatches(req,
                             [k \in 1..size |-> memory[chunk_start + k - 1]],
                             chunk_start).local])])

\* Two sequences hold the same elements the same number of times.
SameBag(s, t) ==
    /\ Len(s) = Len(t)
    /\ \A i \in 1..Len(s) :
           Cardinality({k \in 1..Len(s) : s[k] = s[i]})
               = Cardinality({k \in 1..Len(t) : t[k] = s[i]})

\* C14: after a scan has replied, its id holds the matches of this scan, each
\* once, and nothing of what the id held before.
C14_ScanReplacesEarlierResults ==
    (ScanDone /\ frozen) =>
        SameBag(StoredAt(last.scan_id), ExpectedScanMatches(last))

\* A scan has replied on an id that held other matches before, and found some.
C14_Witness ==
    /\ ScanDone /\ frozen
    /\ last.scan_id \in DOMAIN pre_positions
    /\ pre_positions[last.scan_id] # <<>>
    /\ StoredAt(last.scan_id) # <<>>
    /\ \E i \in 1..Len(pre_positions[last.scan_id]) :
           \A j \in 1..Len(StoredAt(last.scan_id)) :
               StoredAt(last.scan_id)[j] # pre_positions[last.scan_id][i]

\* ------------------------------------------------------------------ claims: types

UnorderedTypes == {"utf-8", "utf-16", "aob"}

\* C15: an Increased or Decreased filter on utf-8, utf-16 or aob that replies
\* keeps no candidate: the id's set is empty and found is 0.
C15_NoOrderingOnTextAndBytes ==
    (FilterDone /\ last.filter_method \in {"increased", "decreased"}
        /\ last.data_type \in UnorderedTypes) =>
        /\ StoredAt(last.scan_id) = <<>>
        /\ response.found = 0
        /\ response.matched_addresses = <<>>

\* An Increased filter on aob has replied over a set that held a candidate whose
\* re-read succeeded and whose bytes differ from its stored value.
C15_Witness ==
    /\ FilterDone /\ frozen /\ last.filter_method = "increased"
    /\ last.data_type = "aob"
    /\ \E i \in 1..Len(pre_positions[last.scan_id]) :
          LET p == pre_positions[last.scan_id][i]
          IN  /\ ~GatewayFails(p.address, Len(last.pattern))
              /\ p.value # CurrentHex(p.address, Len(p.value) \div 2)

\* The element width the data type of an Unknown scan declares.
DeclaredWidth(data_type) ==
    IF data_type \in {"int16", "uint16"} THEN 2
    ELSE IF data_type \in {"int32", "uint32", "float"} THEN 4
    ELSE IF data_type \in {"int64", "uint64", "double"} THEN 8
    ELSE 1

\* C16: every match an Unknown scan stored has as its value the hex of the
\* bytes the target holds at its address, as many as the declared type is wide.
C16_UnknownScanValueIsMemory ==
    (ScanDone /\ frozen /\ last.find_type = "unknown") =>
        \A i \in 1..Len(StoredAt(last.scan_id)) :
            LET m == StoredAt(last.scan_id)[i]
            IN  /\ Len(m.value) = 2 * DeclaredWidth(last.data_type)
                /\ m.value = CurrentHex(m.address, DeclaredWidth(last.data_type))

\* An Unknown int16 scan has stored an element whose two bytes differ.
C16_Witness ==
    /\ ScanDone /\ frozen /\ last.find_type = "unknown"
    /\ last.data_type = "int16"
    /\ \E i \in 1..Len(StoredAt(last.scan_id)) :
          LET m == StoredAt(last.scan_id)[i]
          IN  memory[m.address] # memory[m.address + 1]

\* ------------------------------------------------------------------ claims: failures

\* C17: a memory operation with a pid set replies with a client error only to a
\* filter on an unknown id or with a malformed pattern; a read or write the
\* gateway refuses never makes it reply so.
C17_OnlyPreconditionsFail ==
    (last.op \in MemoryOps /\ admitted /\ response.status = 400) =>
        /\ last.op = "filter"
        /\ \/ last.scan_id \notin DOMAIN pre_positions
           \/ MalformedFilterPattern(last)

\* Chunk c (from 0) of range r of the scan in progress, as <<start, size>>.
ChunkOf(r, c) ==
    LET range == scan.req.address_ranges[r]
    IN  <<ChunkStart(range, c), ChunkEnd(range, c) - ChunkStart(range, c)>>

\* A step in which range r's task goes past a chunk the gateway refuses to read
\* changes neither the matches found so far, nor the store, nor the reply.
FailedChunkStep(r) ==
    (/\ scan.active /\ scan'.active
     /\ scan'.next[r] = scan.next[r] + 1
     /\ GatewayFails(ChunkOf(r, scan.next[r])[1], ChunkOf(r, scan.next[r])[2])) =>
        /\ scan'.found_count = scan.found_count
        /\ scan'.results = scan.results
        /\ GLOBAL_POSITIONS' = GLOBAL_POSITIONS
        /\ response' = response
        /\ poisoned' = poisoned

\* C18: a chunk whose read fails adds no match and nothing to the count and
\* brings no error; the scan replies success with the count of the matches of
\* its other chunks.
C18_FailedChunkContributesNothing ==
    /\ [][\A r \in 1..Len(scan.req.address_ranges) : FailedChunkStep(r)]_vars
    /\ []((ScanDone /\ frozen) =>
            /\ response.status = 200
            /\ response.found = Len(ExpectedScanMatches(last)))

\* A scan has replied with matches although the read of one of its chunks failed.
C18_Witness ==
    /\ ScanDone /\ frozen /\ response.found > 0
    /\ \E r \in 1..Len(last.address_ranges) :
          \E c \in 0..(NumChunks(last.address_ranges[r]) - 1) :
             LET range == last.address_ranges[r]
             IN  GatewayFails(ChunkStart(range, c),
                              ChunkEnd(range, c) - ChunkStart(range, c))

\* The candidates of the set a filter found whose re-read the gateway grants.
LiveCandidates ==
    SelectSeq(pre_positions[last.scan_id],
              LAMBDA p : ~GatewayFails(p.address, Len(last.pattern)))

\* C19: candidates whose re-read fails are left out and fail nothing: when the
\* other candidates each evaluate to kept or dropped, the filter replies success
\* and stores those of them that evaluate to kept.
C19_FailedCandidateExcluded ==
    (/\ FilterRan /\ frozen /\ ~crashed
     /\ last.scan_id \in DOMAIN pre_positions
     /\ \A i \in 1..Len(LiveCandidates) :
            FilterOne(last, LiveCandidates[i]).kind \in {"none", "some"}) =>
        LET kept == SelectSeq(LiveCandidates,
                              LAMBDA p : FilterOne(last, p).kind = "some")
        IN  /\ response.status = 200
            /\ StoredAt(last.scan_id) =
                   [i \in 1..Len(kept) |-> FilterOne(last, kept[i]).match]

\* A filter has replied and kept candidates over a set of which one candidate's
\* re-read failed.
C19_Witness ==
    /\ FilterDone /\ frozen /\ StoredAt(last.scan_id) # <<>>
    /\ \E i \in 1..Len(pre_positions[last.scan_id]) :
          GatewayFails(pre_positions[last.scan_id][i].address, Len(last.pattern))

\* C20: a filter on a type other than regex asks the gateway, for each stored
\* match, for as many bytes as the match's stored value has.
C20_FilterReadsStoredLength ==
    (FilterRan /\ last.scan_id \in DOMAIN pre_positions
        /\ last.data_type # "regex") =>
        \A i \in 1..Len(pre_positions[last.scan_id]) :
            FilterReadSize(last, pre_positions[last.scan_id][i].value)
                = Len(pre_positions[last.scan_id][i].value) \div 2

\* ------------------------------------------------------------------ claims: scan engine

\* The scan has ended, with a reply or with a panic.
ScanEnded == ScanRan /\ ~scan.active

AddressSeq(positions) == [i \in 1..Len(positions) |-> positions[i].address]

\* The addresses of the elements of width w that lie whole inside the chunk of
\* `size` bytes at chunk_start, at offsets 0, w, 2w, ..., and are aligned.
ElementAddresses(chunk_start, size, w, align) ==
    SelectSeq([k \in 1..(size \div w) |-> chunk_start + (k - 1) * w],
              LAMBDA a : a % align = 0)

\* ... of every chunk of every range of a request whose read succeeds.
ExpectedUnknownAddresses(req) ==
    Flatten([r \in 1..Len(req.address_ranges) |->
        LET range == req.address_ranges[r]
        IN  Flatten([c \in 1..NumChunks(range) |->
                LET chunk_start == ChunkStart(range, c - 1)
                    size == ChunkEnd(range, c - 1) - chunk_start
                IN  IF GatewayFails(chunk_start, size) THEN <<>>
                    ELSE ElementAddresses(chunk_start, size,
                                          DeclaredWidth(req.data_type), req.align)])])

\* C21: an Unknown scan ends with a success reply and has stored one match at
\* each aligned element address of its readable chunks and at no other address;
\* a chunk shorter than the element adds none.
C21_UnknownScanStoresEveryElement ==
    (ScanEnded /\ frozen /\ last.find_type = "unknown") =>
        /\ response.status = 200
        /\ SameBag(AddressSeq(StoredAt(last.scan_id)),
                   ExpectedUnknownAddresses(last))

\* The pattern bytes stand in the target's memory from address a on.
OccurrenceAt(needle, a) ==
    \A k \in 1..Len(needle) : a + k - 1 \in Addr /\ memory[a + k - 1] = needle[k]

\* The starts of the occurrences of the pattern bytes inside every readable
\* chunk of a request, those that overlap an earlier occurrence included.
Occurrences(req, needle) ==
    Flatten([r \in 1..Len(req.address_ranges) |->
        LET range == req.address_ranges[r]
        IN  Flatten([c \in 1..NumChunks(range) |->
                LET chunk_start == ChunkStart(range, c - 1)
                    size == ChunkEnd(range, c - 1) - chunk_start
                IN  IF GatewayFails(chunk_start, size) THEN <<>>
                    ELSE SelectSeq(
                             [k \in 1..(size - Len(needle) + 1) |-> chunk_start + k - 1],
                             LAMBDA a : OccurrenceAt(needle, a))])])

\* C22: a literal scan with alignment 1 finds and stores as many matches as its
\* pattern has occurrences inside its readable chunks, occurrences that overlap
\* an earlier one included.
C22_LiteralScanReportsOverlaps ==
    (/\ ScanDone /\ frozen /\ last.find_type = "exact" /\ last.data_type = "aob"
     /\ last.align = 1 /\ last.pattern # <<>> /\ ~InvalidScanPattern(last)) =>
        /\ response.found = Len(Occurrences(last, HexDecode(last.pattern).val))
        /\ Len(StoredAt(last.scan_id)) = response.found

\* The number of matches stored under an id, none when it has no entry.
StoredCount(positions, scan_id) ==
    IF scan_id \in DOMAIN positions THEN Len(positions[scan_id]) ELSE 0

\* C23: what a chunk task flushes into the store in one step, its local match
\* buffer, is never more than MAX_RESULTS + 1 matches.
C23_LocalBufferBounded ==
    [][(scan.active /\ scan'.active) =>
          StoredCount(GLOBAL_POSITIONS', scan.req.scan_id)
              - StoredCount(GLOBAL_POSITIONS, scan.req.scan_id) <= MAX_RESULTS + 1]_vars

\* ------------------------------------------------------------------ claims: locking

\* C24: a scan or a filter makes no gateway call while it holds the lock of the
\* result store.
C24_NoGatewayCallUnderStoreLock ==
    (last.op \in {"scan", "filter"}) => locked_calls = 0

\* C25: while a scan is in its scanning phase, a scan request on another id can
\* enter its own scanning phase.
C25_ScansOnDifferentIdsOverlap ==
    (scan.active /\ nreq < MaxRequests) =>
        ENABLED (\E req \in ScanRequests :
                    req.scan_id # scan.req.scan_id /\ ScanBegin(req))

\* C26: while a scan is in progress, an attach request can complete.
C26_AttachDoesNotWait ==
    scan.active => ENABLED Attach

\* ------------------------------------------------------------------ claims: outcomes

\* C27: with a pid attached a scan request always ends with a success reply,
\* whatever its pattern, types, alignment and ranges (ranges shorter than the
\* element width included).
C27_ScanAlwaysSucceeds ==
    ScanEnded => (response.status = 200 /\ poisoned = {})

\* C28: a relational filter of an integer type on a known id never aborts the
\* request and never leaves the pid mutex or the store poisoned, whatever the
\* width of the stored values.
C28_WidthMismatchDoesNotAbort ==
    (/\ FilterRan /\ ~crashed
     /\ last.data_type \in IntTypes
     /\ last.filter_method \in FilterMethods
     /\ last.scan_id \in DOMAIN pre_positions) =>
        (response # Aborted /\ poisoned = {})

\* C30: a filter that ends with a client error (unknown id, malformed exact
\* pattern) leaves the whole store as it was when the request arrived.
C30_FailedFilterLeavesStore ==
    (FilterRan /\ response.status = 400) => GLOBAL_POSITIONS = pre_positions

\* A filter with a malformed pattern was refused on a set that holds matches.
C30_Witness ==
    /\ FilterRan
    /\ response = Reply(400, "Invalid hex pattern")
    /\ last.scan_id \in DOMAIN pre_positions
    /\ pre_positions[last.scan_id] # <<>>

\* ------------------------------------------------------------------ claims: isolation

\* The store holds under id what it held when the last request arrived.
Untouched(id) ==
    IF id \in DOMAIN pre_positions
    THEN id \in DOMAIN GLOBAL_POSITIONS /\ GLOBAL_POSITIONS[id] = pre_positions[id]
    ELSE id \notin DOMAIN GLOBAL_POSITIONS

\* C29: a scan or a filter on one id, at every point of its run, leaves what
\* the store holds under every other id as it was: no entry is changed,
\* removed or created.
C29_OtherIdsUntouched ==
    (last.op \in {"scan", "filter"}) =>
        \A id \in (DOMAIN pre_positions \cup DOMAIN GLOBAL_POSITIONS) \ {last.scan_id} :
            Untouched(id)

\* A filter replaced the matches of "s1" while "s2" held matches.
C29_Witness ==
    /\ FilterDone
    /\ last.scan_id = "s1"
    /\ GLOBAL_POSITIONS["s1"] # pre_positions["s1"]
    /\ "s2" \in DOMAIN pre_positions
    /\ pre_positions["s2"] # <<>>

\* ------------------------------------------------------------------ claims: order

\* s can be obtained from t by deleting elements.
RECURSIVE IsSubsequence(_, _)
IsSubsequence(s, t) ==
    IF s = <<>> THEN TRUE
    ELSE IF t = <<>> THEN FALSE
    ELSE IF Head(s) = Head(t) THEN IsSubsequence(Tail(s), Tail(t))
    ELSE IsSubsequence(s, Tail(t))

\* C31: after a successful filter the addresses stored under its id are a
\* sub-sequence of the addresses stored when it arrived: none added, none
\* repeated, the kept ones in their earlier order.
C31_FilterKeepsSubsequence ==
    FilterDone =>
        IsSubsequence(AddressSeq(StoredAt(last.scan_id)),
                      AddressSeq(pre_positions[last.scan_id]))

\* A filter kept at least two matches and dropped at least one.
C31_Witness ==
    /\ FilterDone
    /\ Len(StoredAt(last.scan_id)) >= 2
    /\ Len(StoredAt(last.scan_id)) < Len(pre_positions[last.scan_id])

\* ------------------------------------------------------------------ claims: chunks

\* The first n chunks of a range lie end to end from its start, each non-empty,
\* at most ChunkSize long and inside the range.
ChunksTile(range, n) ==
    \A c \in 0..(n - 1) :
        /\ ChunkStart(range, c) =
              IF c = 0 THEN range[1]
              ELSE ChunkStart(range, c - 1) + ChunkSizeActual(range, c - 1)
        /\ ChunkSizeActual(range, c) \in 1..ChunkSize
        /\ ChunkStart(range, c) + ChunkSizeActual(range, c) <= range[2]

\* The n chunks of a range end where the range ends.
ChunksCover(range, n) ==
    IF n = 0 THEN range[1] = range[2]
    ELSE ChunkStart(range, n - 1) + ChunkSizeActual(range, n - 1) = range[2]

\* C32: for every range with start <= end the chunks a scan reads are
\* non-empty, at most the chunk size, disjoint and contiguous, and cover the
\* range exactly; the scan goes through all of them.
C32_ChunksPartitionRange ==
    (/\ ScanRan
     /\ \A r \in 1..Len(last.address_ranges) :
            last.address_ranges[r][1] <= last.address_ranges[r][2]
     /\ last.find_type = "exact") =>
        /\ response # Aborted
        /\ scan.active =>
              \A r \in 1..Len(scan.req.address_ranges) :
                 LET range == scan.req.address_ranges[r]
                 IN  /\ ChunksTile(range, scan.next[r])
                     /\ (scan.next[r] >= NumChunks(range)) =>
                            ChunksCover(range, scan.next[r])

\* ------------------------------------------------------------------ claims: deadlock

\* Whoever holds a guard of the store holds the pid guard.
LockOrder ==
    \A t \in Threads :
        (locks.writer = t \/ t \in locks.readers) => locks.pid_holder = t

Busy(t) == locks.pc[t] # "idle"

\* C33: under any interleaving of concurrent requests the store lock is only
\* taken by the holder of the pid lock, some request can always take its next
\* step, and every request ends.
C33_NoDeadlock ==
    /\ [](LockOrder /\ ((\E t \in Threads : Busy(t)) =>
                            \E t \in Threads : ENABLED Advance(t)))
    /\ \A t \in Threads : Busy(t) ~> ~Busy(t)

\* A scan holds the write guard of the store while another request waits for
\* the pid lock.
C33_Witness ==
    \E t \in Threads, u \in Threads :
        /\ locks.op[t] = "scan" /\ locks.writer = t /\ locks.ip[t] > 3
        /\ locks.pc[u] = "lock_pid"

====
